---------------------------- MODULE Spec2Model ----------------------------
(***************************************************************************)
(* A model of MetaMaster (src/main.py): the per-file EXIF operations       *)
(* extract_metadata / modify_metadata / delete_metadata, the process-wide  *)
(* exif_cache, and batch_process_images, which runs every batch of the     *)
(* enumerated files through a fresh multiprocessing Pool.                  *)
(*                                                                         *)
(* Two specifications share the state:                                     *)
(*   Spec     one run of main(): batch_process_images over a folder;       *)
(*   OpsSpec  one process calling the three file operations directly, in   *)
(*            any order, on a few paths (the module's functions used as a  *)
(*            library, exif_cache living as long as the process).          *)
(***************************************************************************)
EXTENDS Integers, Sequences, FiniteSets

(***************************************************************************)
(* Bounds of the model.                                                    *)
(***************************************************************************)
\* number of entries os.listdir may return for the folder
MaxEntries == 5
\* batch_size ranges over 1..MaxBatch
MaxBatch == 2
\* processes of a Pool() (os.cpu_count())
NumWorkers == 2
\* paths the library-use process works on
MaxOpsFiles == 2

Main == 0
Workers == 1..NumWorkers
Procs == {Main} \cup Workers

VARIABLES
    listing,     \* os.listdir(folder_path): the folder's entries, in listing order
    disk,        \* path -> content of the file
    operation,   \* argument of batch_process_images
    tag_name,    \* argument of batch_process_images ("" models None and '')
    new_value,   \* argument of batch_process_images ("" models None and '')
    batch_size,  \* argument of batch_process_images
    pc,          \* position of the main process in batch_process_images
    files,       \* the enumerated file list
    i,           \* loop variable of "for i in range(0, total_files, batch_size)" (1-based)
    task,        \* index in files -> "idle" | "queued" | "running" | "done"
    running,     \* worker -> index in files of the task it executes, 0 when idle
    results,     \* index in files -> what pool.map collected for it
    finished,    \* indices of the current pool's tasks, in the order they completed
    report,      \* the (file_path, metadata) pairs the extract branch printed, in order
    cache,       \* process -> its exif_cache
    out,         \* stdout: the lines printed so far
    io,          \* the <<path, "open" | "write">> file accesses made so far
    prev,        \* OpsSpec: the direct call before the latest one
    last         \* OpsSpec: the latest direct call and what it returned

vars == <<listing, disk, operation, tag_name, new_value, batch_size, pc, files, i,
          task, running, results, finished, report, cache, out, io, prev, last>>

(***************************************************************************)
(* Values, metadata blocks, file contents.                                 *)
(***************************************************************************)
Str(s) == [t |-> "str", s |-> s]
Bytes(s) == [t |-> "bytes", s |-> s]

\* new_value.encode('utf-8') for a str (main() passes nothing but str)
EncodeValue(v) == Bytes(v)

\* Pillow hands an ASCII tag's stored bytes back as text
DecodeValue(raw) == IF raw.t = "bytes" THEN Str(raw.s) ELSE raw

\* Python truthiness of tag_name / new_value: None and '' are false
Truthy(x) == x # ""

\* ExifTags.TAGS restricted to the tag ids of the model
TAGS == [id \in {315, 36867, 274, 1, 36880} |->
            CASE id = 315 -> "Artist"
              [] id = 36867 -> "DateTimeOriginal"
              [] id = 274 -> "Orientation"
              [] id = 1 -> "InteropIndex"
              [] id = 36880 -> "OffsetTime"]

\* str(tag_id) for the ids the model uses that ExifTags.TAGS does not name
RawName(id) == IF id = 34853 THEN "34853" ELSE "59932"

\* ExifTags.TAGS.get(tag_id, tag_id)
TagsGet(id) == IF id \in DOMAIN TAGS THEN TAGS[id] ELSE RawName(id)

\* a lookup that falls back on Artist for a name it does not know
ExifTagsGetDefaulting(name) ==
    IF \E id \in DOMAIN TAGS : TAGS[id] = name
    THEN CHOOSE id \in DOMAIN TAGS : TAGS[id] = name
    ELSE 315

\* {v: k for k, v in ExifTags.TAGS.items()}.get(tag_name); 0 models None
ExifTagsGet(name) ==
    IF \E id \in DOMAIN TAGS : TAGS[id] = name
    THEN CHOOSE id \in DOMAIN TAGS : TAGS[id] = name
    ELSE 0

\* the tag ids among the values of piexif's IFD classes
ImageIFD == {315, 274, 34853}
ExifIFD == {36867}
GPSIFD == {1}
InteropIFD == {1}
FirstIFD == {315, 274}

\* the chain with the Interop test moved before the GPS test
ResolveIfdInteropFirst(tag_id) ==
    IF tag_id \in ImageIFD THEN "0th"
    ELSE IF tag_id \in ExifIFD THEN "Exif"
    ELSE IF tag_id \in InteropIFD THEN "Interop"
    ELSE IF tag_id \in GPSIFD THEN "GPS"
    ELSE IF tag_id \in FirstIFD THEN "1st"
    ELSE "0th"

\* the if/elif chain choosing the IFD of a tag id
ResolveIfd(tag_id) ==
    IF tag_id \in ImageIFD THEN "0th"
    ELSE IF tag_id \in ExifIFD THEN "Exif"
    ELSE IF tag_id \in GPSIFD THEN "GPS"
    ELSE IF tag_id \in InteropIFD THEN "Interop"
    ELSE IF tag_id \in FirstIFD THEN "1st"
    ELSE "0th"

\* a metadata block: <<ifd, tag id>> -> stored value
EmptyBlock == [k \in {} |-> Bytes("")]
AliceBlock == [k \in {<<"0th", 315>>} |-> Bytes("Alice")]

\* exif_dict[ifd][tag_id] = value
SetTag(block, ifd, tag_id, value) ==
    [k \in DOMAIN block \cup {<<ifd, tag_id>>} |->
        IF k = <<ifd, tag_id>> THEN value ELSE block[k]]

\* piexif.dump: every entry must be a tag piexif knows in that IFD, with a
\* value of the tag's type (the ASCII tags take bytes, Orientation a number)
Dumpable(block) ==
    \A k \in DOMAIN block :
        /\ k \in {<<"0th", 315>>, <<"Exif", 36867>>, <<"GPS", 1>>, <<"Interop", 1>>,
                  <<"0th", 274>>, <<"1st", 315>>, <<"1st", 274>>}
        /\ (k = <<"1st", 274>> => block[k].t = "int")
        /\ (k # <<"0th", 274>> => block[k].t \in {"bytes", "str"})
        /\ (k = <<"0th", 274>> => block[k].t = "int")

CorruptFile == [kind |-> "corrupt", hasExif |-> FALSE, block |-> EmptyBlock]
PlainImage == [kind |-> "image", hasExif |-> FALSE, block |-> EmptyBlock]
TaggedImage == [kind |-> "image", hasExif |-> TRUE, block |-> AliceBlock]
EmptyExifImage == [kind |-> "image", hasExif |-> TRUE, block |-> EmptyBlock]

(***************************************************************************)
(* The file operations, as functions of the executing process's cache and  *)
(* of the file's content.                                                  *)
(***************************************************************************)
\* a digest that is the same for every path
HashKeyColliding(file_path) == <<"md5", 0>>

\* hashlib.md5(file_path.encode()).hexdigest(): one digest per path string
hash_key(file_path) == <<"md5", file_path>>

EmptyCache == [k \in {} |-> {}]

\* exif_cache[cache_key] = metadata
CachePut(c, key, metadata) ==
    [k \in DOMAIN c \cup {key} |-> IF k = key THEN metadata ELSE c[k]]

\* a rewrite that drops the path's entry from the cache
CacheInvalidated(c, file_path) ==
    [k \in DOMAIN c \ {hash_key(file_path)} |-> c[k]]

\* the executing process's exif_cache after modify_metadata or
\* delete_metadata on file_path: neither function touches it
CacheAfterRewrite(c, file_path) == c

\* an except clause that stores an empty result under the path's key
CacheErrorStored(c, file_path) == CachePut(c, hash_key(file_path), {})

\* the executing process's exif_cache after extract_metadata's except
\* clause: it returns the error text and stores nothing
CacheOnError(c, file_path) == c

\* one cache shared by every process (threads, or a manager dict)
StoreShared(caches, proc, c) == [p \in DOMAIN caches |-> c]

\* exif_cache is a module global: a store changes the cache of the process
\* that executes it and of no other
StoreInProcess(caches, proc, c) == [caches EXCEPT ![proc] = c]

\* an except clause that returns None in place of the error text
ErrorSwallowed == [kind |-> "none", map |-> {}]

\* the second component of extract_metadata's result: a dict, None or "Error: ..."
MapOutcome(m) == [kind |-> "map", map |-> m]
NoneOutcome == [kind |-> "none", map |-> {}]
ErrorOutcome == [kind |-> "error", map |-> {}]
Pending == [kind |-> "pending", map |-> {}]

\* img._getexif(): the tags of the 0th and Exif IFDs by id, the GPS IFD as
\* one GPSInfo (34853) entry; no entry at all without a metadata block
GetExif(content) ==
    IF ~content.hasExif THEN {}
    ELSE {<<k[2], DecodeValue(content.block[k])>> :
              k \in {x \in DOMAIN content.block : x[1] \in {"0th", "Exif"}}}
         \cup (IF \E x \in DOMAIN content.block : x[1] = "GPS"
               THEN {<<34853, [t |-> "ifd", s |-> "GPS"]>>} ELSE {})

\* the loop building metadata: tag names (or raw ids) to values
BuildMetadata(exif_data) == {<<TagsGet(e[1]), e[2]>> : e \in exif_data}

\* a lookup that never finds the key
CacheNeverHit(c, file_path) == FALSE

\* whether exif_cache answers the call
CacheHit(c, file_path) == hash_key(file_path) \in DOMAIN c

\* a miss that stores whatever it decoded, an empty result included
StoresAlways(exif_data) == TRUE

\* whether a miss stores what it decoded ("if exif_data:")
StoresResult(exif_data) == exif_data # {}

\* extract_metadata(file_path) run with cache c on content: the outcome, the
\* cache afterwards and whether Image.open was called
extract_metadata(c, content, file_path) ==
    LET cache_key == hash_key(file_path) IN
    IF CacheHit(c, file_path)
    THEN [res |-> MapOutcome(c[cache_key]), cache |-> c, opened |-> FALSE]
    ELSE IF content.kind = "corrupt"
    THEN [res |-> ErrorOutcome, cache |-> CacheOnError(c, file_path),
          opened |-> TRUE]
    ELSE LET exif_data == GetExif(content)
             metadata == BuildMetadata(exif_data) IN
         IF StoresResult(exif_data)
         THEN [res |-> MapOutcome(metadata),
               cache |-> CachePut(c, cache_key, metadata), opened |-> TRUE]
         ELSE [res |-> NoneOutcome, cache |-> c, opened |-> TRUE]

\* a test that takes every image to carry a metadata block
HasExifBlockAlways(content) == TRUE

\* 'exif' in img.info
HasExifBlock(content) == content.hasExif

\* modify_metadata(file_path, tag_name, new_value) on content: the status line
\* it prints, the content afterwards and whether img.save rewrote the file
modify_metadata(content, tag, value) ==
    IF content.kind = "corrupt"
    THEN [line |-> "error", content |-> content, wrote |-> FALSE]
    ELSE IF ~HasExifBlock(content)
    THEN [line |-> "noexif", content |-> content, wrote |-> FALSE]
    ELSE LET tag_id == ExifTagsGet(tag) IN
         IF tag_id # 0
         THEN LET ifd == ResolveIfd(tag_id)
                  exif_dict == SetTag(content.block, ifd, tag_id, EncodeValue(value)) IN
              IF Dumpable(exif_dict)
              THEN [line |-> "modified",
                    content |-> [kind |-> "image", hasExif |-> TRUE, block |-> exif_dict],
                    wrote |-> TRUE]
              ELSE [line |-> "error", content |-> content, wrote |-> FALSE]
         ELSE [line |-> "tagnotfound", content |-> content, wrote |-> FALSE]

\* delete_metadata(file_path) on content: img.save(file_path, exif=b'')
delete_metadata(content) ==
    IF content.kind = "corrupt"
    THEN [line |-> "error", content |-> content, wrote |-> FALSE]
    ELSE [line |-> "deleted", content |-> PlainImage, wrote |-> TRUE]

(***************************************************************************)
(* batch_process_images: enumeration, the batch loop, the pool.            *)
(***************************************************************************)
\* the extension of the k-th entry of the folder (paths are entry numbers)
EntryExt(k) ==
    CASE k % 4 = 1 -> ".jpg"
      [] k % 4 = 2 -> ".txt"
      [] k % 4 = 3 -> ".PNG"
      [] OTHER -> ".Jpeg"

\* str.lower() on the extensions of the model
Lower(ext) ==
    CASE ext = ".PNG" -> ".png"
      [] ext = ".Jpeg" -> ".jpeg"
      [] OTHER -> ext

\* f.lower().endswith(('.jpg', '.jpeg', '.png'))
Eligible(k) == Lower(EntryExt(k)) \in {".jpg", ".jpeg", ".png"}

Entries == 1..MaxEntries

Operations == {"extract", "modify", "delete"}

Min(a, b) == IF a < b THEN a ELSE b

\* a slice one too long: the first file of the next batch is taken twice
BatchIndicesOverlapping(start) == start..Min(start + batch_size, Len(files))

\* the indices in files of files[i:i + batch_size]
BatchIndices(start) == start..Min(start + batch_size - 1, Len(files))

\* a loop step one too long: the file after each batch is skipped
NextISkipping(start) == start + batch_size + 1

\* the next value of i in range(0, total_files, batch_size)
NextI(start) == start + batch_size

\* a line of stdout; path is 0 for a line about the whole run
Line(kind, path) == [kind |-> kind, path |-> path]

\* the line the extract branch prints for one (file_path, metadata) pair
ReportLine(path, outcome) ==
    IF outcome.kind = "map" THEN Line("metadata", path)
    ELSE IF outcome.kind = "none" THEN Line("noexif", path)
    ELSE Line("exterror", path)

\* results handed back as they complete (imap_unordered in place of map)
GatherAsCompleted(start) == finished

\* the order in which the results of a batch are handed back: pool.map
\* returns them in the order of its input list
GatherOrder(start) == [n \in 1..Cardinality(BatchIndices(start)) |-> start + n - 1]

\* a map that does not wait for its tasks (map_async without get)
MapNoWait(start) == TRUE

\* a map that waits for every enumerated file, not only those of its batch
MapWaitsForEveryFile(start) == \A k \in DOMAIN task : task[k] = "done"

\* pool.map returns once every task of the batch has completed
MapComplete(start) == \A k \in BatchIndices(start) : task[k] = "done"

\* a direct call of one of the three file operations: its arguments, the
\* file's content before it, what it returned (extract) or printed (modify,
\* delete), and whether it opened and rewrote the file
Call(op, path, tag, value, before, res, line, opened, wrote) ==
    [op |-> op, path |-> path, tag |-> tag, value |-> value, before |-> before,
     res |-> res, line |-> line, opened |-> opened, wrote |-> wrote]

NoCall == Call("none", 0, "", "", CorruptFile, Pending, "", FALSE, FALSE)

\* a test that never takes the list of files for empty
NoImagesNever(fs) == FALSE

\* "if total_files == 0"
NoImages(fs) == Len(fs) = 0

\* os.listdir(folder_path): the first n entries of the folder, or a folder
\* holding one entry that is not an image
Listings == {[k \in 1..n |-> k] : n \in 0..MaxEntries} \cup {<<2>>}

Init ==
    /\ listing \in Listings
    /\ disk \in [Entries -> {CorruptFile, PlainImage, TaggedImage}]
    /\ \A k \in Entries :
          (~Eligible(k) \/ k > Len(listing)) => disk[k] = CorruptFile
    /\ operation \in Operations \cup {"rename"}
    /\ tag_name \in {"", "Artist", "Nope"}
    /\ new_value \in {"", "Bob"}
    /\ operation # "modify" => tag_name = "" /\ new_value = ""
    /\ batch_size \in 1..MaxBatch
    /\ pc = "start"
    /\ files = <<>>
    /\ i = 1
    /\ task = <<>>
    /\ running = [w \in Workers |-> 0]
    /\ results = <<>>
    /\ finished = <<>>
    /\ report = <<>>
    /\ cache = [p \in Procs |-> EmptyCache]
    /\ out = <<>>
    /\ io = {}
    /\ prev = NoCall
    /\ last = NoCall

\* lines 103-110: enumerate the folder; return at once when nothing is eligible
Enumerate ==
    /\ pc = "start"
    /\ files' = SelectSeq(listing, Eligible)
    /\ task' = [k \in 1..Len(files') |-> "idle"]
    /\ results' = [k \in 1..Len(files') |-> Pending]
    /\ i' = 1
    /\ IF NoImages(files')
       THEN /\ out' = Append(out, Line("noimages", 0))
            /\ pc' = "done"
       ELSE /\ out' = Append(out, Line("found", 0))
            /\ pc' = "loop"
    /\ UNCHANGED <<listing, disk, operation, tag_name, new_value, batch_size,
                   running, finished, report, cache, io, prev, last>>

\* lines 116-118, 128-135: "with Pool() as pool: pool.map(...)" starts: the
\* workers are forked from the main process and the batch is queued
StartPool ==
    /\ pc = "loop"
    /\ i <= Len(files)
    /\ \/ operation \in {"extract", "delete"}
       \/ operation = "modify" /\ Truthy(tag_name) /\ Truthy(new_value)
    /\ task' = [k \in 1..Len(files) |->
                   IF k \in BatchIndices(i) THEN "queued" ELSE task[k]]
    /\ cache' = [p \in Procs |-> cache[Main]]
    /\ finished' = <<>>
    /\ pc' = "map"
    /\ UNCHANGED <<listing, disk, operation, tag_name, new_value, batch_size, files,
                   i, running, results, report, out, io, prev, last>>

\* lines 136-137: modify without a tag name or a value
MissingParams ==
    /\ pc = "loop"
    /\ i <= Len(files)
    /\ operation = "modify"
    /\ ~(Truthy(tag_name) /\ Truthy(new_value))
    /\ out' = Append(out, Line("missing", 0))
    /\ i' = NextI(i)
    /\ UNCHANGED <<listing, disk, operation, tag_name, new_value, batch_size, pc,
                   files, task, running, results, finished, report, cache, io,
                   prev, last>>

\* lines 138-139: none of the three operations
UnknownOperation ==
    /\ pc = "loop"
    /\ i <= Len(files)
    /\ operation \notin Operations
    /\ out' = Append(out, Line("unknown", 0))
    /\ i' = NextI(i)
    /\ UNCHANGED <<listing, disk, operation, tag_name, new_value, batch_size, pc,
                   files, task, running, results, finished, report, cache, io,
                   prev, last>>

\* a worker of the pool takes a queued task and enters the mapped function
WorkerStart(w, k) ==
    /\ pc = "map"
    /\ running[w] = 0
    /\ k \in DOMAIN task
    /\ task[k] = "queued"
    /\ running' = [running EXCEPT ![w] = k]
    /\ task' = [task EXCEPT ![k] = "running"]
    /\ UNCHANGED <<listing, disk, operation, tag_name, new_value, batch_size, pc,
                   files, i, results, finished, report, cache, out, io, prev, last>>

\* the file accesses of one call: Image.open, and img.save when it rewrote
Accesses(path, opened, wrote) ==
    (IF opened THEN {<<path, "open">>} ELSE {})
    \cup (IF wrote THEN {<<path, "write">>} ELSE {})

\* a worker runs extract_metadata on its file and hands the result back
WorkerExtract(w) ==
    /\ operation = "extract"
    /\ running[w] # 0
    /\ LET k == running[w]
           path == files[k]
           r == extract_metadata(cache[w], disk[path], path) IN
       /\ results' = [results EXCEPT ![k] = r.res]
       /\ cache' = StoreInProcess(cache, w, r.cache)
       /\ io' = io \cup Accesses(path, r.opened, FALSE)
       /\ task' = [task EXCEPT ![k] = "done"]
       /\ finished' = Append(finished, k)
    /\ running' = [running EXCEPT ![w] = 0]
    /\ UNCHANGED <<listing, disk, operation, tag_name, new_value, batch_size, pc,
                   files, i, report, out, prev, last>>

\* a worker runs delete_metadata or modify_metadata on its file; the function
\* prints its status line and returns None
WorkerRewrite(w) ==
    /\ operation \in {"delete", "modify"}
    /\ running[w] # 0
    /\ LET k == running[w]
           path == files[k]
           r == IF operation = "delete" THEN delete_metadata(disk[path])
                ELSE modify_metadata(disk[path], tag_name, new_value) IN
       /\ disk' = [disk EXCEPT ![path] = r.content]
       /\ out' = Append(out, Line(r.line, path))
       /\ io' = io \cup Accesses(path, TRUE, r.wrote)
       /\ results' = [results EXCEPT ![k] = NoneOutcome]
       /\ task' = [task EXCEPT ![k] = "done"]
       /\ finished' = Append(finished, k)
       /\ cache' = StoreInProcess(cache, w, CacheAfterRewrite(cache[w], path))
    /\ running' = [running EXCEPT ![w] = 0]
    /\ UNCHANGED <<listing, operation, tag_name, new_value, batch_size, pc, files,
                   i, report, prev, last>>

\* lines 118-127, 130, 135: pool.map returns, the pool is torn down, the
\* extract branch prints its results, and the loop moves to the next batch
MapReturn ==
    /\ pc = "map"
    /\ MapComplete(i)
    /\ LET order == GatherOrder(i)
           pairs == [n \in DOMAIN order |-> <<files[order[n]], results[order[n]]>>] IN
       IF operation = "extract"
       THEN /\ report' = report \o pairs
            /\ out' = out \o [n \in DOMAIN pairs |-> ReportLine(pairs[n][1], pairs[n][2])]
       ELSE UNCHANGED <<report, out>>
    /\ cache' = [p \in Procs |-> IF p = Main THEN cache[Main] ELSE EmptyCache]
    /\ i' = NextI(i)
    /\ pc' = "loop"
    /\ UNCHANGED <<listing, disk, operation, tag_name, new_value, batch_size, files,
                   task, running, results, finished, io, prev, last>>

\* lines 141-143: the loop is over; print the summary line
Summary ==
    /\ pc = "loop"
    /\ i > Len(files)
    /\ out' = Append(out, Line("summary", 0))
    /\ pc' = "done"
    /\ UNCHANGED <<listing, disk, operation, tag_name, new_value, batch_size, files,
                   i, task, running, results, finished, report, cache, io, prev, last>>

Next ==
    \/ Enumerate
    \/ StartPool
    \/ MissingParams
    \/ UnknownOperation
    \/ \E w \in Workers, k \in 1..MaxEntries : WorkerStart(w, k)
    \/ \E w \in Workers : WorkerExtract(w)
    \/ \E w \in Workers : WorkerRewrite(w)
    \/ MapReturn
    \/ Summary

Spec == Init /\ [][Next]_vars

\* the steps of the main process and of one pool worker
MainStep == Enumerate \/ StartPool \/ MissingParams \/ UnknownOperation
               \/ MapReturn \/ Summary
WorkerStep(w) == (\E k \in 1..MaxEntries : WorkerStart(w, k))
                    \/ WorkerExtract(w) \/ WorkerRewrite(w)

\* Spec with every process scheduled: the main process runs on and no pool
\* worker that can take or finish a task waits forever
FairSpec == Spec /\ WF_vars(MainStep) /\ \A w \in Workers : WF_vars(WorkerStep(w))

(***************************************************************************)
(* OpsSpec: one process calls the file operations directly.  Its stdout is *)
(* kept as the line of the latest call (last.line).                        *)
(***************************************************************************)
OpsPaths == 1..MaxOpsFiles

OpsInit ==
    /\ listing = <<>>
    /\ disk \in [OpsPaths -> {CorruptFile, PlainImage, TaggedImage, EmptyExifImage}]
    /\ operation = "library"
    /\ tag_name = ""
    /\ new_value = ""
    /\ batch_size = 1
    /\ pc = "library"
    /\ files = <<>>
    /\ i = 1
    /\ task = <<>>
    /\ running = [w \in Workers |-> 0]
    /\ results = <<>>
    /\ finished = <<>>
    /\ report = <<>>
    /\ cache = [p \in Procs |-> EmptyCache]
    /\ out = <<>>
    /\ io = {}
    /\ prev = NoCall
    /\ last = NoCall

\* extract_metadata(path) called in the main process
CallExtract(path) ==
    /\ pc = "library"
    /\ LET r == extract_metadata(cache[Main], disk[path], path) IN
       /\ cache' = StoreInProcess(cache, Main, r.cache)
       /\ io' = io \cup Accesses(path, r.opened, FALSE)
       /\ last' = Call("extract", path, "", "", disk[path], r.res, "", r.opened, FALSE)
    /\ prev' = last
    /\ UNCHANGED <<listing, disk, operation, tag_name, new_value, batch_size, pc,
                   files, i, task, running, results, finished, report, out>>

\* modify_metadata(path, tag, value) called in the main process
CallModify(path, tag, value) ==
    /\ pc = "library"
    /\ LET r == modify_metadata(disk[path], tag, value) IN
       /\ disk' = [disk EXCEPT ![path] = r.content]
       /\ io' = io \cup Accesses(path, TRUE, r.wrote)
       /\ last' = Call("modify", path, tag, value, disk[path], NoneOutcome, r.line,
                       TRUE, r.wrote)
    /\ cache' = StoreInProcess(cache, Main, CacheAfterRewrite(cache[Main], path))
    /\ prev' = last
    /\ UNCHANGED <<listing, operation, tag_name, new_value, batch_size, pc, files, i,
                   task, running, results, finished, report, out>>

\* delete_metadata(path) called in the main process
CallDelete(path) ==
    /\ pc = "library"
    /\ LET r == delete_metadata(disk[path]) IN
       /\ disk' = [disk EXCEPT ![path] = r.content]
       /\ io' = io \cup Accesses(path, TRUE, r.wrote)
       /\ last' = Call("delete", path, "", "", disk[path], NoneOutcome, r.line,
                       TRUE, r.wrote)
    /\ cache' = StoreInProcess(cache, Main, CacheAfterRewrite(cache[Main], path))
    /\ prev' = last
    /\ UNCHANGED <<listing, operation, tag_name, new_value, batch_size, pc, files, i,
                   task, running, results, finished, report, out>>

OpsNext ==
    \/ \E path \in OpsPaths : CallExtract(path)
    \/ \E path \in OpsPaths, tag \in {"Artist", "Nope"}, value \in {"Bob"} :
          CallModify(path, tag, value)
    \/ \E path \in OpsPaths : CallDelete(path)

OpsSpec == OpsInit /\ [][OpsNext]_vars

(***************************************************************************)
(* Properties of a batch_process_images run (Spec).                        *)
(***************************************************************************)
ReportPaths == [n \in DOMAIN report |-> report[n][1]]

CountLines(kind) == Cardinality({n \in DOMAIN out : out[n].kind = kind})

ReportKinds == {"metadata", "noexif", "exterror"}

\* C1: when an extract run over n >= 1 eligible files is over, every
\* enumerated path has exactly one reported (path, outcome) pair and exactly
\* one report line, n pairs in all; at no moment is a path reported twice.
C1_EveryFileReportedOnce ==
    operation = "extract" =>
        /\ \A path \in Entries :
              Cardinality({n \in DOMAIN report : report[n][1] = path}) <= 1
        /\ (pc = "done" /\ Len(files) >= 1) =>
              /\ Len(report) = Len(files)
              /\ \A k \in DOMAIN files :
                    /\ Cardinality({n \in DOMAIN report : report[n][1] = files[k]}) = 1
                    /\ Cardinality({n \in DOMAIN out : out[n].kind \in ReportKinds
                                                      /\ out[n].path = files[k]}) = 1

\* an extract run over three files, one failing, one without metadata and
\* one with metadata, has ended
C1_Witness ==
    /\ operation = "extract"
    /\ pc = "done"
    /\ Len(files) = 3
    /\ {report[n][2].kind : n \in DOMAIN report} = {"error", "none", "map"}

\* C2: in a finished extract run, the outcome reported for a file is the one
\* its own content gives (an error for the file that cannot be opened, the
\* metadata or "no metadata" for the others), whatever its siblings are; with
\* exactly one failing file there is exactly one error outcome, and the run
\* went on to its summary line.
C2_FailureIsolated ==
    (operation = "extract" /\ pc = "done" /\ Len(files) >= 1) =>
        /\ Len(report) = Len(files)
        /\ \A n \in DOMAIN report :
              LET content == disk[report[n][1]] IN
              /\ content = CorruptFile <=> report[n][2].kind = "error"
              /\ content = PlainImage <=> report[n][2].kind = "none"
              /\ content = TaggedImage <=>
                    report[n][2] = [kind |-> "map", map |-> {<<"Artist", Str("Alice")>>}]
        /\ Cardinality({k \in DOMAIN files : disk[files[k]] = CorruptFile}) = 1 =>
              Cardinality({n \in DOMAIN report : report[n][2].kind = "error"}) = 1
        /\ out[Len(out)].kind = "summary"

\* an extract run has ended in which one file of a two-file batch failed and
\* two other files were valid
C2_Witness ==
    /\ operation = "extract"
    /\ pc = "done"
    /\ batch_size = 2
    /\ Len(files) = 3
    /\ Cardinality({k \in DOMAIN files : disk[files[k]] = CorruptFile}) = 1
    /\ Cardinality({n \in DOMAIN report : report[n][2].kind = "error"}) = 1

\* C3: with an operation other than extract, modify and delete, the error is
\* reported at most once in the run, exactly once when the run is over, no
\* file is opened or rewritten and no task is handed to a pool.
C3_UnknownOperationReportedOnce ==
    operation \notin Operations =>
        /\ CountLines("unknown") <= 1
        /\ (pc = "done" /\ Len(files) >= 1) => CountLines("unknown") = 1
        /\ io = {}
        /\ \A k \in DOMAIN task : task[k] = "idle"

\* C4: in a modify run whose tag name or new value is absent or empty, the
\* error is reported at most once in the run, exactly once when the run is
\* over, and no file is opened, handed to modify_metadata or rewritten.
C4_MissingParamsReportedOnce ==
    (operation = "modify" /\ ~(Truthy(tag_name) /\ Truthy(new_value))) =>
        /\ CountLines("missing") <= 1
        /\ (pc = "done" /\ Len(files) >= 1) => CountLines("missing") = 1
        /\ io = {}
        /\ \A k \in DOMAIN task : task[k] = "idle"

\* C5: in an extract run the n-th reported pair is the n-th enumerated file
\* with the result collected for it, whatever order the tasks completed in;
\* when the run is over the reported paths are the enumerated file list.
C5_ReportInInputOrder ==
    operation = "extract" =>
        /\ Len(report) <= Len(files)
        /\ \A n \in DOMAIN report :
              n \in DOMAIN files /\ report[n] = <<files[n], results[n]>>
        /\ pc = "done" => ReportPaths = files

\* an extract run has ended whose last batch completed its second file
\* before its first
C5_Witness ==
    /\ operation = "extract"
    /\ pc = "done"
    /\ Len(finished) = 2
    /\ finished[1] > finished[2]
    /\ ReportPaths = files

\* the batch (numbered from 0) the k-th file belongs to
BatchOf(k) == (k - 1) \div batch_size

\* C6: a task of a later batch is queued or started only when every task of
\* every earlier batch has completed; the tasks being executed all belong to
\* the batch of the running pool and number at most batch_size.
C6_BatchesSequential ==
    /\ \A k \in DOMAIN task : \A j \in DOMAIN task :
          (BatchOf(k) < BatchOf(j) /\ task[j] # "idle") => task[k] = "done"
    /\ \A w \in Workers :
          running[w] # 0 => pc = "map" /\ BatchOf(running[w]) = BatchOf(i)
    /\ Cardinality({k \in DOMAIN task : task[k] = "running"}) <= batch_size

\* two files of the second batch of a delete or modify run are being
\* processed at the same moment
C6_Witness ==
    /\ operation \in {"delete", "modify"}
    /\ i > 1
    /\ Cardinality({k \in DOMAIN task : task[k] = "running"}) = 2

(***************************************************************************)
(* Properties of direct calls in one process (OpsSpec).                    *)
(***************************************************************************)
\* the two latest calls are extract_metadata calls on the same path
SamePathExtracts ==
    prev.op = "extract" /\ last.op = "extract" /\ prev.path = last.path

\* C7: of two consecutive extract_metadata calls on one path, the second
\* returns what the first returned, and when the first returned a
\* MetadataMap the second does not open the file; a map an extract returns
\* is the cache's entry for the path.
C7_CacheIdempotence ==
    /\ SamePathExtracts =>
          /\ last.res = prev.res
          /\ prev.res.kind = "map" => ~last.opened
    /\ (last.op = "extract" /\ last.res.kind = "map") =>
          /\ hash_key(last.path) \in DOMAIN cache[Main]
          /\ cache[Main][hash_key(last.path)] = last.res.map

\* a first extract opened the file and returned a map, the next extract of
\* the path returned the same map without opening the file
C7_Witness ==
    /\ SamePathExtracts
    /\ prev.opened
    /\ prev.res.kind = "map"
    /\ last.res = prev.res
    /\ ~last.opened

\* C8 as claimed: after an extract that yielded "no metadata", the path is
\* in the cache and the next extract of it does not open the file.
C8_NoMetadataShortCircuits ==
    (SamePathExtracts /\ prev.res.kind = "none") =>
        /\ ~last.opened
        /\ hash_key(last.path) \in DOMAIN cache[Main]

\* C8, amended: an extract that opens a readable file without metadata
\* yields "no metadata" and stores nothing under the path's fingerprint, so
\* the next extract of the path opens the file again and yields "no
\* metadata" again.
C8_NoMetadataNotCached ==
    /\ (last.op = "extract" /\ last.opened /\ last.before.kind = "image"
            /\ GetExif(last.before) = {}) =>
          /\ last.res.kind = "none"
          /\ hash_key(last.path) \notin DOMAIN cache[Main]
    /\ (SamePathExtracts /\ prev.res.kind = "none") =>
          /\ last.opened
          /\ last.res.kind = "none"

\* two consecutive extracts of a file without metadata, both opening it
C8_Witness ==
    /\ SamePathExtracts
    /\ prev.res.kind = "none"
    /\ prev.opened
    /\ last.opened
    /\ last.res.kind = "none"

\* C9: an extract that follows at once a successful delete of a file that
\* had tags yields "no metadata".
C9_ExtractAfterDeleteIsEmpty ==
    (/\ prev.op = "delete"
     /\ prev.line = "deleted"
     /\ GetExif(prev.before) # {}
     /\ last.op = "extract"
     /\ last.path = prev.path) => last.res.kind = "none"

\* C10: an extract that follows at once a successful modify of tag T to
\* value V returns a map whose entry for T is V (as text).
C10_ExtractAfterModifyRoundTrips ==
    (/\ prev.op = "modify"
     /\ prev.line = "modified"
     /\ last.op = "extract"
     /\ last.path = prev.path) =>
        /\ last.res.kind = "map"
        /\ \A e \in last.res.map : e[1] = prev.tag => e[2] = Str(prev.value)
        /\ \E e \in last.res.map : e[1] = prev.tag

(***************************************************************************)
(* Further properties of a batch_process_images run.                       *)
(***************************************************************************)
\* C11 as claimed: a run that is over has printed the summary line last.
C11_EveryRunEndsWithSummary ==
    pc = "done" => (Len(out) >= 1 /\ out[Len(out)].kind = "summary")

\* C11, amended: a run that found at least one eligible file eventually has
\* gone through every batch and printed the summary line as its last line,
\* whatever the operation and whatever the files' outcomes.
C11_RunReachesSummary ==
    (pc = "loop") ~>
        (pc = "done" /\ i > Len(files) /\ out[Len(out)].kind = "summary")

\* a modify run over at least two files, every one of which failed, has
\* ended with the summary line
C11_Witness ==
    /\ pc = "done"
    /\ operation = "modify"
    /\ Len(files) >= 2
    /\ \A k \in DOMAIN files :
          \E n \in DOMAIN out : out[n] = Line("error", files[k])
    /\ out[Len(out)].kind = "summary"

\* a delete run, or a modify run given a tag name and a value
ValidRewriteRun ==
    \/ operation = "delete"
    \/ operation = "modify" /\ Truthy(tag_name) /\ Truthy(new_value)

\* the lines of stdout about one path
LinesAbout(path) == {n \in DOMAIN out : out[n].path = path}

\* C12: in a modify or delete run with valid parameters a file has one
\* status line as soon as its operation has completed, none before, never
\* two; when the run is over every enumerated file has exactly one.
C12_OneStatusLinePerFile ==
    ValidRewriteRun =>
        \A k \in DOMAIN files :
            /\ Cardinality(LinesAbout(files[k])) =
                  (IF k \in DOMAIN task /\ task[k] = "done" THEN 1 ELSE 0)
            /\ pc = "done" => Cardinality(LinesAbout(files[k])) = 1

\* a modify run has ended in which one file was modified, one had no
\* metadata and one could not be opened
C12_Witness ==
    /\ pc = "done"
    /\ operation = "modify"
    /\ Len(files) = 3
    /\ {out[n].kind : n \in {m \in DOMAIN out : out[m].path # 0}}
          = {"modified", "noexif", "error"}

(***************************************************************************)
(* Further properties of direct calls in one process (OpsSpec).            *)
(***************************************************************************)
\* C13: no call removes or changes an entry of the cache, a modify or
\* delete call leaves the whole cache as it was, and an extract of a path
\* that has an entry returns that entry without opening the file, whatever
\* was done to the file since the entry was stored.
C13_CacheNeverInvalidated ==
    [][/\ \A k \in DOMAIN cache[Main] :
             k \in DOMAIN cache'[Main] /\ cache'[Main][k] = cache[Main][k]
       /\ last'.op \in {"modify", "delete"} => cache' = cache
       /\ (last'.op = "extract" /\ hash_key(last'.path) \in DOMAIN cache[Main]) =>
             /\ last'.res = MapOutcome(cache[Main][hash_key(last'.path)])
             /\ ~last'.opened]_vars

\* an extract right after a call that rewrote the file returned the map
\* cached before the rewrite, which the file no longer holds
C13_Witness ==
    /\ prev.op \in {"modify", "delete"}
    /\ prev.wrote
    /\ last.op = "extract"
    /\ last.path = prev.path
    /\ ~last.opened
    /\ last.res = MapOutcome({<<"Artist", Str("Alice")>>})
    /\ GetExif(disk[last.path]) # {<<315, Str("Alice")>>}

(***************************************************************************)
(* The caches of a batch_process_images run (Spec).                        *)
(***************************************************************************)
\* C14: in a run the dispatching process's cache stays empty, the workers
\* hold entries only while their pool runs, no entry is in the caches of two
\* workers, and every entry a worker holds is the map that worker's pool
\* collected for a file of the current batch.
C14_CacheProcessLocal ==
    /\ cache[Main] = EmptyCache
    /\ pc # "map" => \A w \in Workers : cache[w] = EmptyCache
    /\ \A w1 \in Workers : \A w2 \in Workers :
          w1 # w2 => DOMAIN cache[w1] \cap DOMAIN cache[w2] = {}
    /\ \A w \in Workers : \A key \in DOMAIN cache[w] :
          \E k \in BatchIndices(i) :
              /\ key = hash_key(files[k])
              /\ task[k] = "done"
              /\ results[k] = MapOutcome(cache[w][key])

\* in the second batch of an extract run each of two workers has cached the
\* map of the file it extracted
C14_Witness ==
    /\ operation = "extract"
    /\ pc = "map"
    /\ i > 1
    /\ \E w1 \in Workers : \E w2 \in Workers :
          w1 # w2 /\ cache[w1] # EmptyCache /\ cache[w2] # EmptyCache

(***************************************************************************)
(* ModifySpec: the direct calls of OpsSpec on one path, modify_metadata    *)
(* being given every tag name of the model.                                *)
(***************************************************************************)
ModifyTags == {"Artist", "DateTimeOriginal", "Orientation", "InteropIndex",
               "OffsetTime", "Nope"}

ModifyNext ==
    \/ \E tag \in ModifyTags, value \in {"Bob"} : CallModify(1, tag, value)
    \/ CallExtract(1)
    \/ CallDelete(1)

ModifySpec == OpsInit /\ [][ModifyNext]_vars

\* the five directories in the order of precedence, and their static sets
Precedence == <<"0th", "Exif", "GPS", "Interop", "1st">>

DirectorySet(dir) ==
    CASE dir = "0th" -> ImageIFD
      [] dir = "Exif" -> ExifIFD
      [] dir = "GPS" -> GPSIFD
      [] dir = "Interop" -> InteropIFD
      [] OTHER -> FirstIFD

\* the first directory in the order of precedence whose set holds the id,
\* Primary when none does
FirstContaining(id) ==
    LET holding == {n \in DOMAIN Precedence : id \in DirectorySet(Precedence[n])} IN
    IF holding = {} THEN "0th"
    ELSE Precedence[CHOOSE n \in holding : \A m \in holding : n <= m]

\* the tag ids of the model: those of ExifTags.TAGS and two it does not name
TagIds == DOMAIN TAGS \cup {34853, 59932}

\* C15: every tag id resolves to the first of Primary, Exif, GPS,
\* Interoperability, Thumbnail whose set contains it, to Primary when none
\* does; a successful modify stores the encoded value under that directory
\* and adds the tag under no other.
C15_DirectoryResolution ==
    /\ \A id \in TagIds : ResolveIfd(id) = FirstContaining(id)
    /\ (last.op = "modify" /\ last.line = "modified") =>
          LET id == ExifTagsGet(last.tag)
              block == disk[last.path].block IN
          /\ id # 0
          /\ <<FirstContaining(id), id>> \in DOMAIN block
          /\ block[<<FirstContaining(id), id>>] = EncodeValue(last.value)
          /\ \A n \in DOMAIN Precedence :
                (<<Precedence[n], id>> \in DOMAIN block
                    /\ Precedence[n] # FirstContaining(id))
                  => <<Precedence[n], id>> \in DOMAIN last.before.block

\* a modify of InteropIndex, whose id is in the GPS and in the
\* Interoperability set, succeeded and stored the tag in the GPS directory
C15_Witness ==
    /\ last.op = "modify"
    /\ last.line = "modified"
    /\ last.tag = "InteropIndex"
    /\ 1 \in GPSIFD \cap InteropIFD
    /\ <<"GPS", 1>> \in DOMAIN disk[last.path].block
    /\ <<"Interop", 1>> \notin DOMAIN disk[last.path].block

\* C16: modify_metadata on an image without a metadata block prints the
\* "cannot modify" line, does not rewrite the file and leaves it as it was,
\* without a metadata block, whatever the tag name.
C16_ModifyCreatesNoBlock ==
    (last.op = "modify" /\ last.before.kind = "image" /\ ~last.before.hasExif) =>
        /\ last.line = "noexif"
        /\ ~last.wrote
        /\ disk[last.path] = last.before
        /\ ~disk[last.path].hasExif

\* modify of a known tag was called on an image without a metadata block
C16_Witness ==
    /\ last.op = "modify"
    /\ last.tag = "Artist"
    /\ last.before = PlainImage
    /\ last.line = "noexif"
    /\ disk[last.path] = PlainImage

\* no entry of the tag table carries this name
NoTagNamed(name) == \A id \in DOMAIN TAGS : TAGS[id] # name

C18_NoImagesNoWork ==
    (pc # "start" /\ Len(files) = 0) =>
        /\ pc = "done"
        /\ out = <<Line("noimages", 0)>>
        /\ task = <<>>
        /\ \A w \in Workers : running[w] = 0
        /\ finished = <<>>
        /\ report = <<>>
        /\ io = {}
        /\ \A p \in Procs : cache[p] = EmptyCache

\* a folder holding only a file that is not an image was enumerated, under
\* an operation that is none of the three
C18_Witness ==
    /\ listing = <<2>>
    /\ operation = "rename"
    /\ pc = "done"
    /\ out = <<Line("noimages", 0)>>

\* C19: in an extract run no call of extract_metadata is a cache hit: a
\* worker about to extract has no entry for its file and the file was not
\* opened before; a file whose task is over was opened and its result is
\* the one extract_metadata gives with an empty cache; a file whose task
\* has not started was not opened; the main process's cache stays empty.
C19_NoCacheHitInExtractRun ==
    operation = "extract" =>
        /\ \A w \in Workers :
              running[w] # 0 =>
                  /\ ~CacheHit(cache[w], files[running[w]])
                  /\ <<files[running[w]], "open">> \notin io
        /\ \A k \in DOMAIN task :
              /\ task[k] = "done" =>
                    /\ <<files[k], "open">> \in io
                    /\ results[k] =
                          extract_metadata(EmptyCache, disk[files[k]], files[k]).res
              /\ task[k] \in {"idle", "queued"} => <<files[k], "open">> \notin io
        /\ \A m, n \in DOMAIN files : files[m] = files[n] => m = n
        /\ cache[Main] = EmptyCache

\* a worker whose cache holds the entry of an earlier file of the batch is
\* about to extract another file
C19_Witness ==
    /\ operation = "extract"
    /\ \E w \in Workers :
          /\ running[w] # 0
          /\ cache[w] # EmptyCache
          /\ ~CacheHit(cache[w], files[running[w]])

\* C20: every cache entry is a non-empty map stored under the key of a path
\* that was opened; the entry an opening extract stored is what the decode
\* of that file gave; after an extract that returned an error the path has
\* no entry, and the next extract of the path opens the file again.
C20_CacheHoldsOnlyDecodedMaps ==
    /\ \A key \in DOMAIN cache[Main] :
          /\ cache[Main][key] # {}
          /\ \E path \in OpsPaths :
                /\ key = hash_key(path)
                /\ <<path, "open">> \in io
                /\ disk[path].kind = "image"
    /\ (last.op = "extract" /\ last.opened /\ last.res.kind = "map") =>
          /\ last.before.kind = "image"
          /\ cache[Main][hash_key(last.path)] = BuildMetadata(GetExif(last.before))
    /\ (last.op = "extract" /\ last.res.kind = "error") =>
          hash_key(last.path) \notin DOMAIN cache[Main]
    /\ (SamePathExtracts /\ prev.res.kind = "error") =>
          /\ last.opened
          /\ last.res.kind = "error"

\* a file that does not open was extracted twice in a row, both calls
\* opening it, while the cache holds the entry of another path
C20_Witness ==
    /\ SamePathExtracts
    /\ prev.res.kind = "error"
    /\ prev.opened
    /\ last.opened
    /\ cache[Main] # EmptyCache

=============================================================================
